---- MODULE Spec2Model ----
(***************************************************************************)
(* A model of the gesture-controlled holiday scene: the hand-pose          *)
(* classifier (GestureService), the particle scene (ChristmasScene) and    *)
(* the React component (App) that wires one to the other.                  *)
(*                                                                         *)
(* Numbers are fixed point.  Landmark coordinates and distances are in     *)
(* hundredths of the normalised image space (0.05 is 5), a Math.random()   *)
(* outcome r in [0, 1) is the integer 100 r, scene lengths are in          *)
(* hundredths of a scene unit, angles in hundredths of pi, rotations of    *)
(* the main group in thousandths of a radian.                              *)
(*                                                                         *)
(* A target position is kept in the coordinates the code computes it from  *)
(* (cylindrical for the tree, spherical for the scatter shell, a ring for  *)
(* the focus background), since cos, sin and acos have no integer form.    *)
(* The current transform of a mesh (mesh.position, mesh.rotation) is       *)
(* written by Particle.update from the targets and read by no operation    *)
(* of the scene or of the component; the scene record does not carry it.   *)
(***************************************************************************)
EXTENDS Integers, Sequences, FiniteSets, TLC

VARIABLES
  scenes,          \* every ChristmasScene constructed so far, in order
  services,        \* every GestureService constructed so far; services[k] was made with scenes[k]
  video,           \* the one <video> element all services share
  dispatch,        \* 'loadeddata' listeners still to run in the event being dispatched
  gestureMode,     \* App state gestureMode (with the updates React has queued)
  effectMode,      \* the gestureMode of the render whose effects ran last (the dependency)
  sceneRef,        \* sceneRef.current: an index into scenes
  gestureRef,      \* gestureRef.current: an index into services, or Null
  loading,         \* App state loading
  timers,          \* pending setTimeout(() => setLoading(false), 500)
  uploads,         \* photo uploads: started so far, being read, being decoded
  hasMediaDevices, \* navigator.mediaDevices.getUserMedia exists
  last             \* what the step just taken did (its calls, reports and frame requests)

vars == <<scenes, services, video, dispatch, gestureMode, effectMode, sceneRef,
          gestureRef, loading, timers, uploads, hasMediaDevices, last>>

appVars == <<scenes, services, video, dispatch, gestureMode, effectMode, sceneRef,
             gestureRef, loading, timers, uploads, hasMediaDevices>>

----------------------------------------------------------------------------
(* Bounds *)

\* effect runs modelled: each constructs one scene and one gesture service
MaxScenes == 2
\* ornaments made by initParticles (totalCount, 1500 in the code)
NumOrnaments == 1
\* photo uploads started
MaxUploads == 1
\* distinct Math.random() outcomes the component-level steps draw from
AppEntropy == 1

----------------------------------------------------------------------------
(* Fixed-point helpers *)

\* null, of a field that otherwise holds an index (focusTargetIdx, gestureRef.current)
Null == -1

\* a value that may be null is a sequence of length 0 or 1
None == <<>>
Some(v) == <<v>>

TruncDiv(a, b) == IF a >= 0 THEN a \div b ELSE -((-a) \div b)

\* floor of the square root, by bisection of lo..hi
RECURSIVE SqrtBetween(_, _, _)
SqrtBetween(n, lo, hi) ==
  IF lo = hi THEN lo
  ELSE LET mid == (lo + hi + 1) \div 2
       IN  IF mid * mid <= n THEN SqrtBetween(n, mid, hi)
           ELSE SqrtBetween(n, lo, mid - 1)

Isqrt(n) == SqrtBetween(n, 0, 174)

Hypot3(dx, dy, dz) == Isqrt(dx * dx + dy * dy + dz * dz)

Lerp(a, b, t) == a + TruncDiv((b - a) * t, 100)

Sum4(s) == s[1] + s[2] + s[3] + s[4]

\* n outcomes of Math.random(), evenly spread over [0, 1)
Samples(n) == { (i * 100) \div n : i \in 0..(n - 1) }

----------------------------------------------------------------------------
(* types.ts *)

SceneMode == {"TREE", "SCATTER", "FOCUS"}

----------------------------------------------------------------------------
(* GestureService.processGestures *)

PinchThreshold == 5
FistThreshold == 25
OpenThreshold == 40

Point(x, y, z) == [x |-> x, y |-> y, z |-> z]

Dist(p, q) == Hypot3(p.x - q.x, p.y - q.y, p.z - q.z)

\* processGestures with the fist test moved before the pinch test
processGesturesFistFirst(landmarks) ==
  LET thumb == landmarks[4]
      index == landmarks[8]
      wrist == landmarks[0]
      fingers == <<landmarks[12], landmarks[16], landmarks[20]>>
      pinchDist == Dist(thumb, index)
      tips == <<index>> \o fingers
      dists == [j \in 1..4 |-> Dist(tips[j], wrist)]
  IN  IF Sum4(dists) < FistThreshold * Len(dists) THEN "TREE"
      ELSE IF pinchDist < PinchThreshold THEN "FOCUS"
      ELSE IF Sum4(dists) > OpenThreshold * Len(dists) THEN "SCATTER"
      ELSE "TREE"

\* processGestures with avgDist >= 0.4 for the open hand
processGesturesOpenInclusive(landmarks) ==
  LET thumb == landmarks[4]
      index == landmarks[8]
      wrist == landmarks[0]
      fingers == <<landmarks[12], landmarks[16], landmarks[20]>>
      pinchDist == Dist(thumb, index)
      tips == <<index>> \o fingers
      dists == [j \in 1..4 |-> Dist(tips[j], wrist)]
  IN  IF pinchDist < PinchThreshold THEN "FOCUS"
      ELSE IF Sum4(dists) < FistThreshold * Len(dists) THEN "TREE"
      ELSE IF Sum4(dists) >= OpenThreshold * Len(dists) THEN "SCATTER"
      ELSE "TREE"

\* avgDist = sum / dists.length is compared as sum against threshold * length,
\* so that the average keeps its fraction.
processGestures(landmarks) ==
  LET thumb == landmarks[4]
      index == landmarks[8]
      wrist == landmarks[0]
      fingers == <<landmarks[12], landmarks[16], landmarks[20]>>
      pinchDist == Dist(thumb, index)
      tips == <<index>> \o fingers
      dists == [j \in 1..4 |-> Dist(tips[j], wrist)]
  IN  IF pinchDist < PinchThreshold THEN "FOCUS"
      ELSE IF Sum4(dists) < FistThreshold * Len(dists) THEN "TREE"
      ELSE IF Sum4(dists) > OpenThreshold * Len(dists) THEN "SCATTER"
      ELSE "TREE"

----------------------------------------------------------------------------
(* Particle and ChristmasScene *)

Vec3(x, y, z) == [x |-> x, y |-> y, z |-> z]

\* (Math.random() - 0.5) * 0.15 on each axis, in ten-thousandths
Velocity(r) == Vec3((r[1] - 50) * 15, (r[2] - 50) * 15, (r[3] - 50) * 15)

Particle(type, index, r) ==
  [type |-> type,
   originIndex |-> index,
   velocity |-> Velocity(r),
   targetPos |-> [form |-> "xyz", x |-> 0, y |-> 0, z |-> 0],
   targetRot |-> Vec3(0, 0, 0),
   scale |-> 100]

\* the draws of one setMode call: the focus pick, and two per particle
Draws(n, S) == [pick : S, a : [1..n -> S], b : [1..n -> S]]

\* Layout drawing a new direction on the sphere in SCATTER
LayoutScatterTurns(p, i, n, mode, focusTargetIdx, ra, rb) ==
  IF mode = "TREE"
  THEN LET radius == (1400 * (n - i)) \div n
           angle == (4500 * i) \div n
       IN  [p EXCEPT !.targetPos = [form |-> "cylinder", radius |-> radius,
                                    angle |-> angle,
                                    y |-> (2600 * i) \div n - 1200],
                     !.targetRot = Vec3(0, angle, 0),
                     !.scale = 100]
  ELSE IF mode = "SCATTER"
  THEN [p EXCEPT !.targetPos = [form |-> "sphere", radius |-> 800 + ra * 14,
                                cosPhi |-> ra * 2 - 100, count |-> n],
                 !.scale = 100]
  ELSE IF i = focusTargetIdx
  THEN [p EXCEPT !.targetPos = [form |-> "xyz", x |-> 0, y |-> 200, z |-> 3500],
                 !.targetRot = Vec3(0, 0, 0),
                 !.scale = 450]
  ELSE [p EXCEPT !.targetPos = [form |-> "ring", angle |-> ra * 2,
                                dist |-> 3000 + rb * 15, z |-> -1500],
                 !.scale = 40]

\* Layout presenting every photo in FOCUS
LayoutFocusAllPhotos(p, i, n, mode, focusTargetIdx, ra, rb) ==
  IF mode = "TREE"
  THEN LET radius == (1400 * (n - i)) \div n
           angle == (4500 * i) \div n
       IN  [p EXCEPT !.targetPos = [form |-> "cylinder", radius |-> radius,
                                    angle |-> angle,
                                    y |-> (2600 * i) \div n - 1200],
                     !.targetRot = Vec3(0, angle, 0),
                     !.scale = 100]
  ELSE IF mode = "SCATTER"
  THEN [p EXCEPT !.targetPos = [form |-> "sphere", radius |-> 800 + ra * 14,
                                cosPhi |-> (200 * i) \div n - 100, count |-> n],
                 !.scale = 100]
  ELSE IF p.type = "PHOTO"
  THEN [p EXCEPT !.targetPos = [form |-> "xyz", x |-> 0, y |-> 200, z |-> 3500],
                 !.targetRot = Vec3(0, 0, 0),
                 !.scale = 450]
  ELSE [p EXCEPT !.targetPos = [form |-> "ring", angle |-> ra * 2,
                                dist |-> 3000 + rb * 15, z |-> -1500],
                 !.scale = 40]

\* the target of the particle at array index i of n
Layout(p, i, n, mode, focusTargetIdx, ra, rb) ==
  IF mode = "TREE" THEN
    LET radius == (1400 * (n - i)) \div n
        angle == (4500 * i) \div n
    IN  [p EXCEPT !.targetPos = [form |-> "cylinder", radius |-> radius,
                                 angle |-> angle, y |-> (2600 * i) \div n - 1200],
                  !.targetRot = Vec3(0, angle, 0),
                  !.scale = 100]
  ELSE IF mode = "SCATTER" THEN
    [p EXCEPT !.targetPos = [form |-> "sphere", radius |-> 800 + ra * 14,
                             cosPhi |-> (200 * i) \div n - 100, count |-> n],
              !.scale = 100]
  ELSE IF i = focusTargetIdx THEN
    [p EXCEPT !.targetPos = [form |-> "xyz", x |-> 0, y |-> 200, z |-> 3500],
              !.targetRot = Vec3(0, 0, 0),
              !.scale = 450]
  ELSE
    [p EXCEPT !.targetPos = [form |-> "ring", angle |-> ra * 2,
                             dist |-> 3000 + rb * 15, z |-> -1500],
              !.scale = 40]

\* setMode leaving the focus target in place when the mode is not FOCUS
setModeKeepsFocus(s, mode, rnd) ==
  LET n == Len(s.particles)
      photos == SelectSeq(s.particles, LAMBDA p : p.type = "PHOTO")
      focus == IF mode = "FOCUS" /\ Len(photos) > 0
               THEN photos[(rnd.pick * Len(photos)) \div 100 + 1].originIndex
               ELSE s.focusTargetIdx
  IN  [s EXCEPT !.mode = mode,
                !.focusTargetIdx = focus,
                !.particles = [j \in 1..n |->
                   Layout(s.particles[j], j - 1, n, mode, focus, rnd.a[j], rnd.b[j])]]

\* setMode focusing the first particle when there is no photo to pick
setModeFocusFirst(s, mode, rnd) ==
  LET n == Len(s.particles)
      photos == SelectSeq(s.particles, LAMBDA p : p.type = "PHOTO")
      focus == IF mode = "FOCUS"
               THEN IF Len(photos) > 0
                    THEN photos[(rnd.pick * Len(photos)) \div 100 + 1].originIndex
                    ELSE 0
               ELSE Null
  IN  [s EXCEPT !.mode = mode,
                !.focusTargetIdx = focus,
                !.particles = [j \in 1..n |->
                   Layout(s.particles[j], j - 1, n, mode, focus, rnd.a[j], rnd.b[j])]]

setMode(s, mode, rnd) ==
  LET n == Len(s.particles)
      photos == SelectSeq(s.particles, LAMBDA p : p.type = "PHOTO")
      focus == IF mode = "FOCUS"
               THEN IF Len(photos) > 0
                    THEN photos[(rnd.pick * Len(photos)) \div 100 + 1].originIndex
                    ELSE s.focusTargetIdx
               ELSE Null
  IN  [s EXCEPT !.mode = mode,
                !.focusTargetIdx = focus,
                !.particles = [j \in 1..n |->
                   Layout(s.particles[j], j - 1, n, mode, focus, rnd.a[j], rnd.b[j])]]

\* addPhotoToScene numbering the new particle from one
addPhotoToSceneFromOne(s, r, rnd) ==
  LET p == Particle("PHOTO", Len(s.particles) + 1, r)
  IN  setMode([s EXCEPT !.particles = Append(s.particles, p)], s.mode, rnd)

addPhotoToScene(s, r, rnd) ==
  LET p == Particle("PHOTO", Len(s.particles), r)
  IN  setMode([s EXCEPT !.particles = Append(s.particles, p)], s.mode, rnd)

\* updateInteraction easing back to the rest rotation when no hand is seen
updateInteractionSnapBack(s, palmCenter) ==
  LET targetRX == IF palmCenter # None THEN (palmCenter[1].y - 50) * (-6) ELSE 0
      targetRY == IF palmCenter # None THEN (palmCenter[1].x - 50) * 9 ELSE 0
  IN  [s EXCEPT !.rotation = [x |-> Lerp(s.rotation.x, targetRX, 50),
                              y |-> Lerp(s.rotation.y, targetRY, 50)]]

updateInteraction(s, palmCenter) ==
  IF palmCenter # None
  THEN LET targetRX == (palmCenter[1].y - 50) * (-6)
           targetRY == (palmCenter[1].x - 50) * 9
       IN  [s EXCEPT !.rotation = [x |-> Lerp(s.rotation.x, targetRX, 8),
                                   y |-> Lerp(s.rotation.y, targetRY, 8)]]
  ELSE s

dispose(s) == [s EXCEPT !.disposed = TRUE]

OrnamentType(rnd) ==
  IF rnd < 45 THEN "BOX" ELSE IF rnd < 85 THEN "SPHERE" ELSE "CANDY"

\* the draws of one constructor call: an ornament's kind, and the three of
\* each particle's velocity
SceneDraws(S) ==
  [types : [1..NumOrnaments -> S],
   vel : [1..(NumOrnaments + 1) -> [1..3 -> S]]]

\* setMode(TREE) calls Math.random() for no particle
NoDraws(n) == [pick |-> 0, a |-> [j \in 1..n |-> 0], b |-> [j \in 1..n |-> 0]]

initParticles(s, d) ==
  setMode([s EXCEPT !.particles =
             [i \in 1..NumOrnaments |->
                Particle(OrnamentType(d.types[i]), i - 1, d.vel[i])]],
          "TREE", NoDraws(NumOrnaments))

\* the scene is still in TREE, as initParticles left it
initPhotoWall(s, d) ==
  addPhotoToScene(s, d.vel[NumOrnaments + 1], NoDraws(NumOrnaments + 1))

\* new ChristmasScene(container): the last call of the constructor, animate(),
\* requests the first frame
ChristmasScene(d) ==
  LET s0 == [mode |-> "TREE", focusTargetIdx |-> Null, particles |-> <<>>,
             rotation |-> [x |-> 0, y |-> 0], disposed |-> FALSE,
             frameRequested |-> FALSE]
      s1 == initPhotoWall(initParticles(s0, d), d)
  IN  [s1 EXCEPT !.frameRequested = TRUE]

----------------------------------------------------------------------------
(* What a step did *)

Event(op, id) ==
  [op |-> op,            \* the handler that ran
   id |-> id,            \* the service or scene it ran for
   outcome |-> "",       \* predict: "skipped", "threw" or "processed"
   detected |-> 0,       \* calls of landmarker.detectForVideo
   result |-> <<>>,      \* results.landmarks of that call
   reported |-> <<>>,    \* the GestureData passed to onUpdate, in order
   scheduled |-> 0,      \* calls of requestAnimationFrame
   calls |-> <<>>]       \* methods called on scenes, in order

Call(method, scene) == [method |-> method, scene |-> scene]

----------------------------------------------------------------------------
(* Detector input: one hand is 21 landmarks *)

Hand(wrist, thumb, index, palm, middle, ring, pinky) ==
  [i \in 0..20 |->
     CASE i = 0 -> wrist
       [] i = 4 -> thumb
       [] i = 8 -> index
       [] i = 9 -> palm
       [] i = 12 -> middle
       [] i = 16 -> ring
       [] i = 20 -> pinky
       [] OTHER -> palm]

\* thumb and index 0.0224 apart: a pinch
PinchHand ==
  Hand(Point(50, 90, 0), Point(50, 50, 0), Point(52, 51, 0), Point(51, 50, 0),
       Point(50, 40, 0), Point(50, 40, 0), Point(50, 40, 0))

\* four fingertips 0.5 from the wrist: an open hand
OpenHand ==
  Hand(Point(50, 50, 0), Point(20, 50, 0), Point(50, 100, 0), Point(51, 50, 0),
       Point(100, 50, 0), Point(50, 0, 0), Point(80, 90, 0))

\* four fingertips 0.2 from the wrist: a fist
FistHand ==
  Hand(Point(50, 50, 0), Point(40, 50, 0), Point(50, 70, 0), Point(51, 50, 0),
       Point(70, 50, 0), Point(50, 30, 0), Point(62, 66, 0))

AppHands == {PinchHand, OpenHand, FistHand}

\* results.landmarks with numHands: 1
DetectorResults == {<<>>} \cup { <<h>> : h \in AppHands }

----------------------------------------------------------------------------
(* GestureService *)

HAVE_CURRENT_DATA == 2

\* new GestureService(video, canvas), made in the render whose gestureMode is m
GestureService(m) ==
  [pc |-> "wasm",           \* where init() is: "wasm", "model", "camera", "ready", "failed"
   landmarker |-> FALSE,    \* this.landmarker is set
   listening |-> FALSE,     \* the 'loadeddata' listener is added
   pending |-> 0,           \* frame requests for predict not yet run
   started |-> FALSE,       \* predict has run at least once
   registered |-> FALSE,    \* App has replaced the default onUpdate
   renderMode |-> m]        \* the gestureMode the closure of that render holds

\* NotReady without the readyState test
NotReadyIgnoresVideo(svc, v) == ~svc.landmarker

\* !this.landmarker || this.video.readyState < 2
NotReady(svc, v) == ~svc.landmarker \/ v.readyState < HAVE_CURRENT_DATA

\* palmCenterOf reading landmark 0
palmCenterOfWrist(landmarks) == [x |-> landmarks[0].x, y |-> landmarks[0].y]

palmCenterOf(landmarks) == [x |-> landmarks[9].x, y |-> landmarks[9].y]

\* NoHandData with a pointer at the image centre
NoHandDataKeepsPointer == [mode |-> "TREE", palmCenter |-> Some([x |-> 50, y |-> 50])]

NoHandData == [mode |-> "TREE", palmCenter |-> None]

\* the GestureData predict builds from results.landmarks
GestureDataOf(landmarks) ==
  IF Len(landmarks) > 0
  THEN [mode |-> processGestures(landmarks[1]),
        palmCenter |-> Some(palmCenterOf(landmarks[1]))]
  ELSE NoHandData

----------------------------------------------------------------------------
(* App *)

AppSamples == Samples(AppEntropy)

\* gesture.onUpdate as App sets it for services[k]: what it does to scenes[k]
onUpdateScene(k, data, rnd) ==
  LET s == scenes[k]
      s1 == IF data.mode # services[k].renderMode
            THEN setMode(s, data.mode, rnd) ELSE s
  IN  updateInteraction(s1, data.palmCenter)

onUpdateCalls(k, data) ==
  (IF data.mode # services[k].renderMode THEN <<Call("setMode", k)>> ELSE <<>>)
    \o <<Call("updateInteraction", k)>>

onUpdateGestureMode(k, data) ==
  IF data.mode # services[k].renderMode THEN data.mode ELSE gestureMode

----------------------------------------------------------------------------
(* Steps of GestureService *)

\* predict() for services[k]; consumed is 1 when a frame request ran it and 0
\* when the 'loadeddata' listener did.  detectForVideo either throws, and the
\* exception leaves predict before the callback and the frame request, or
\* returns its result.
predict(k, consumed) ==
  LET svc == services[k] IN
  IF NotReady(svc, video)
  THEN /\ services' = [services EXCEPT ![k].pending = @ - consumed + 1,
                                       ![k].started = TRUE]
       /\ last' = [Event("predict", k) EXCEPT !.outcome = "skipped", !.scheduled = 1]
       /\ UNCHANGED <<scenes, gestureMode>>
  ELSE \/ /\ services' = [services EXCEPT ![k].pending = @ - consumed,
                                          ![k].started = TRUE]
          /\ last' = [Event("predict", k) EXCEPT !.outcome = "threw", !.detected = 1]
          /\ UNCHANGED <<scenes, gestureMode>>
       \/ \E landmarks \in DetectorResults :
          \E rnd \in Draws(Len(scenes[k].particles), AppSamples) :
          \E data \in {GestureDataOf(landmarks)} :
            /\ IF svc.registered
               THEN /\ scenes' = [scenes EXCEPT ![k] = onUpdateScene(k, data, rnd)]
                    /\ gestureMode' = onUpdateGestureMode(k, data)
               ELSE UNCHANGED <<scenes, gestureMode>>
            /\ services' = [services EXCEPT ![k].pending = @ - consumed + 1,
                                            ![k].started = TRUE]
            /\ last' = [Event("predict", k) EXCEPT
                          !.outcome = "processed", !.detected = 1,
                          !.result = landmarks, !.reported = <<data>>,
                          !.scheduled = 1,
                          !.calls = IF svc.registered THEN onUpdateCalls(k, data)
                                    ELSE <<>>]

\* a frame request of predict runs
FramePredict(k) ==
  /\ dispatch = <<>>
  /\ services[k].pending > 0
  /\ predict(k, 1)
  /\ UNCHANGED <<video, dispatch, effectMode, sceneRef, gestureRef, loading,
                 timers, uploads, hasMediaDevices>>

\* the next 'loadeddata' listener of the event being dispatched runs
ListenerPredict ==
  /\ dispatch # <<>>
  /\ predict(Head(dispatch), 0)
  /\ dispatch' = Tail(dispatch)
  /\ UNCHANGED <<video, effectMode, sceneRef, gestureRef, loading, timers,
                 uploads, hasMediaDevices>>

\* the stream set as srcObject delivers its first frame: 'loadeddata' fires, and
\* every listener added so far is called, in the order they were added
LoadedData ==
  /\ dispatch = <<>>
  /\ video.loadPending
  /\ video' = [readyState |-> HAVE_CURRENT_DATA, loadPending |-> FALSE]
  /\ dispatch' = SelectSeq([k \in 1..Len(services) |-> k],
                           LAMBDA k : services[k].listening)
  /\ last' = Event("loadeddata", 0)
  /\ UNCHANGED <<scenes, services, gestureMode, effectMode, sceneRef, gestureRef,
                 loading, timers, uploads, hasMediaDevices>>

\* init(): FilesetResolver.forVisionTasks resolves
InitWasm(k) ==
  /\ dispatch = <<>>
  /\ services[k].pc = "wasm"
  /\ services' = [services EXCEPT ![k].pc = "model"]
  /\ last' = Event("init", k)
  /\ UNCHANGED <<scenes, video, dispatch, gestureMode, effectMode, sceneRef,
                 gestureRef, loading, timers, uploads, hasMediaDevices>>

\* init(): HandLandmarker.createFromOptions resolves.  Without mediaDevices
\* init() returns here, and initVision goes on: gestureRef, onUpdate, the timer.
InitModel(k) ==
  /\ dispatch = <<>>
  /\ services[k].pc = "model"
  /\ IF hasMediaDevices
     THEN /\ services' = [services EXCEPT ![k].landmarker = TRUE, ![k].pc = "camera"]
          /\ UNCHANGED <<gestureRef, timers>>
     ELSE /\ services' = [services EXCEPT ![k].landmarker = TRUE, ![k].pc = "ready",
                                          ![k].registered = TRUE]
          /\ gestureRef' = k
          /\ timers' = timers + 1
  /\ last' = Event("init", k)
  /\ UNCHANGED <<scenes, video, dispatch, gestureMode, effectMode, sceneRef,
                 loading, uploads, hasMediaDevices>>

\* init(): getUserMedia resolves; the stream becomes the video's srcObject (the
\* element starts loading again) and the listener is added.  initVision goes on
\* in the same turn of the event loop: gestureRef, onUpdate, the timer.
InitCamera(k) ==
  /\ dispatch = <<>>
  /\ services[k].pc = "camera"
  /\ services' = [services EXCEPT ![k].pc = "ready", ![k].listening = TRUE,
                                  ![k].registered = TRUE]
  /\ video' = [readyState |-> 0, loadPending |-> TRUE]
  /\ gestureRef' = k
  /\ timers' = timers + 1
  /\ last' = Event("init", k)
  /\ UNCHANGED <<scenes, dispatch, gestureMode, effectMode, sceneRef, loading,
                 uploads, hasMediaDevices>>

\* initVision setting the timer inside the try block, after init()
InitFailsNoTimer(k) ==
  /\ dispatch = <<>>
  /\ services[k].pc \in {"wasm", "model", "camera"}
  /\ services' = [services EXCEPT ![k].pc = "failed"]
  /\ last' = [Event("init", k) EXCEPT !.outcome = "threw"]
  /\ UNCHANGED <<scenes, video, dispatch, gestureMode, effectMode, sceneRef,
                 gestureRef, loading, timers, uploads, hasMediaDevices>>

\* init() rejects at one of its awaits; initVision catches, logs, sets the timer
InitFails(k) ==
  /\ dispatch = <<>>
  /\ services[k].pc \in {"wasm", "model", "camera"}
  /\ services' = [services EXCEPT ![k].pc = "failed"]
  /\ timers' = timers + 1
  /\ last' = [Event("init", k) EXCEPT !.outcome = "threw"]
  /\ UNCHANGED <<scenes, video, dispatch, gestureMode, effectMode, sceneRef,
                 gestureRef, loading, uploads, hasMediaDevices>>

----------------------------------------------------------------------------
(* Steps of ChristmasScene and App *)

\* a frame request of animate runs: it requests the next frame, updates the
\* particles' meshes and renders
animate(s) ==
  /\ dispatch = <<>>
  /\ scenes[s].frameRequested
  /\ last' = [Event("animate", s) EXCEPT !.scheduled = 1,
                                         !.calls = <<Call("animate", s)>>]
  /\ UNCHANGED appVars

\* setTimeout(() => setLoading(false), 500) fires
LoadingTimer ==
  /\ dispatch = <<>>
  /\ timers > 0
  /\ timers' = timers - 1
  /\ loading' = FALSE
  /\ last' = Event("timer", 0)
  /\ UNCHANGED <<scenes, services, video, dispatch, gestureMode, effectMode,
                 sceneRef, gestureRef, uploads, hasMediaDevices>>

\* React renders with a gestureMode other than the effect's dependency: the
\* cleanup of the last effect runs, then the effect again, with a new scene and
\* a new gesture service
EffectRerun ==
  /\ dispatch = <<>>
  /\ gestureMode # effectMode
  /\ Len(scenes) < MaxScenes
  /\ \E d \in SceneDraws(AppSamples) :
       scenes' = Append([scenes EXCEPT ![Len(scenes)] = dispose(@)], ChristmasScene(d))
  /\ services' = Append(services, GestureService(gestureMode))
  /\ sceneRef' = Len(scenes) + 1
  /\ effectMode' = gestureMode
  /\ last' = [Event("effect", Len(scenes) + 1) EXCEPT
                !.scheduled = 1,
                !.calls = <<Call("dispose", Len(scenes)),
                            Call("setMode", Len(scenes) + 1),
                            Call("addPhotoToScene", Len(scenes) + 1),
                            Call("animate", Len(scenes) + 1)>>]
  /\ UNCHANGED <<video, dispatch, gestureMode, gestureRef, loading, timers,
                 uploads, hasMediaDevices>>

\* handleUpload: a file is chosen and sceneRef.current is set
handleUpload ==
  /\ dispatch = <<>>
  /\ uploads.started < MaxUploads
  /\ sceneRef # Null
  /\ uploads' = [uploads EXCEPT !.started = @ + 1, !.reading = @ + 1]
  /\ last' = Event("upload", 0)
  /\ UNCHANGED <<scenes, services, video, dispatch, gestureMode, effectMode,
                 sceneRef, gestureRef, loading, timers, hasMediaDevices>>

\* reader.onload: the data URL goes to TextureLoader.load
ReaderLoaded ==
  /\ dispatch = <<>>
  /\ uploads.reading > 0
  /\ uploads' = [uploads EXCEPT !.reading = @ - 1, !.decoding = @ + 1]
  /\ last' = Event("reader", 0)
  /\ UNCHANGED <<scenes, services, video, dispatch, gestureMode, effectMode,
                 sceneRef, gestureRef, loading, timers, hasMediaDevices>>

\* the texture's onLoad: sceneRef.current?.addPhotoToScene(t)
TextureLoaded ==
  /\ dispatch = <<>>
  /\ uploads.decoding > 0
  /\ uploads' = [uploads EXCEPT !.decoding = @ - 1]
  /\ \E r \in [1..3 -> AppSamples] :
     \E rnd \in Draws(Len(scenes[sceneRef].particles) + 1, AppSamples) :
       scenes' = [scenes EXCEPT ![sceneRef] = addPhotoToScene(@, r, rnd)]
  /\ last' = [Event("texture", sceneRef) EXCEPT
                !.calls = <<Call("addPhotoToScene", sceneRef)>>]
  /\ UNCHANGED <<services, video, dispatch, gestureMode, effectMode, sceneRef,
                 gestureRef, loading, timers, hasMediaDevices>>

----------------------------------------------------------------------------
(* The component: the state after the first render and its effect *)

AppInit ==
  /\ \E d \in SceneDraws(AppSamples) : scenes = <<ChristmasScene(d)>>
  /\ services = <<GestureService("TREE")>>
  /\ video = [readyState |-> 0, loadPending |-> FALSE]
  /\ dispatch = <<>>
  /\ gestureMode = "TREE"
  /\ effectMode = "TREE"
  /\ sceneRef = 1
  /\ gestureRef = Null
  /\ loading = TRUE
  /\ timers = 0
  /\ uploads = [started |-> 0, reading |-> 0, decoding |-> 0]
  /\ hasMediaDevices \in BOOLEAN

Init ==
  /\ AppInit
  /\ last = [Event("effect", 1) EXCEPT
               !.scheduled = 1,
               !.calls = <<Call("setMode", 1), Call("addPhotoToScene", 1),
                           Call("animate", 1)>>]

Next ==
  \/ \E k \in 1..Len(services) : FramePredict(k)
  \/ ListenerPredict
  \/ LoadedData
  \/ \E k \in 1..Len(services) : InitWasm(k)
  \/ \E k \in 1..Len(services) : InitModel(k)
  \/ \E k \in 1..Len(services) : InitCamera(k)
  \/ \E k \in 1..Len(services) : InitFails(k)
  \/ \E s \in 1..Len(scenes) : animate(s)
  \/ LoadingTimer
  \/ EffectRerun
  \/ handleUpload
  \/ ReaderLoaded
  \/ TextureLoaded

Spec == Init /\ [][Next]_vars

----------------------------------------------------------------------------
(* The classifier alone: processGestures applied to one landmark set *)

Wrist == Point(10, 10, 0)

\* fingertips 0.20, 0.25, 0.30, 0.40 and 0.50 from Wrist, two of them in depth
Tips == {Point(30, 10, 0), Point(25, 10, 20), Point(10, 28, 24),
         Point(34, 42, 0), Point(40, 50, 0)}

\* the thumb tip relative to the index tip: 0.042, 0.04 (in depth), exactly
\* 0.05 (twice, once in depth) and 0.30 away
ThumbOffsets == {Point(3, 3, 0), Point(0, 0, 4), Point(3, 4, 0), Point(0, 3, 4),
                 Point(30, 0, 0)}

Shift(p, d) == Point(p.x + d.x, p.y + d.y, p.z + d.z)

ClassifierInputs ==
  { Hand(Wrist, Shift(ix, off), ix, Point(51, 50, 0), m, r, pk) :
      ix \in Tips, off \in ThumbOffsets, m \in Tips, r \in Tips, pk \in Tips }

\* no component is mounted
InitClassify ==
  /\ scenes = <<>>
  /\ services = <<>>
  /\ video = [readyState |-> 0, loadPending |-> FALSE]
  /\ dispatch = <<>>
  /\ gestureMode = "TREE"
  /\ effectMode = "TREE"
  /\ sceneRef = Null
  /\ gestureRef = Null
  /\ loading = TRUE
  /\ timers = 0
  /\ uploads = [started |-> 0, reading |-> 0, decoding |-> 0]
  /\ hasMediaDevices = TRUE
  /\ \E lm \in ClassifierInputs : last = [Event("input", 0) EXCEPT !.result = <<lm>>]

\* processGestures(landmarks) returns; outcome holds the mode returned
Classify ==
  /\ last.op = "input"
  /\ last' = [Event("processGestures", 0) EXCEPT
                !.result = last.result,
                !.outcome = processGestures(last.result[1])]
  /\ UNCHANGED appVars

NextClassify == Classify

SpecClassify == InitClassify /\ [][NextClassify]_vars

----------------------------------------------------------------------------
(* Properties of the classifier *)

\* the squared distance of two landmarks, in ten-thousandths
Squared(p, q) ==
  (p.x - q.x) * (p.x - q.x) + (p.y - q.y) * (p.y - q.y) + (p.z - q.z) * (p.z - q.z)

\* the distance of two landmarks whose distance is a whole number of hundredths
Exact(p, q) == CHOOSE d \in 0..174 : d * d = Squared(p, q)

\* four times the average distance of fingertips 8, 12, 16, 20 to the wrist
TipSum(lm) ==
  Exact(lm[8], lm[0]) + Exact(lm[12], lm[0]) + Exact(lm[16], lm[0]) + Exact(lm[20], lm[0])

Classified == last.op = "processGestures"

\* C1: a landmark set whose thumb tip and index tip are less than 0.05 apart in
\* 3D is classified FOCUS, wherever the wrist and the other fingertips are.
C1_PinchWins ==
  Classified =>
    (Squared(last.result[1][4], last.result[1][8]) < PinchThreshold * PinchThreshold
       => last.outcome = "FOCUS")

\* C1 witness: a pinch whose fingertips are those of an open hand (average 0.5)
\* has been classified.
C1_Witness ==
  /\ Classified
  /\ Squared(last.result[1][4], last.result[1][8]) < PinchThreshold * PinchThreshold
  /\ TipSum(last.result[1]) = 200
  /\ last.outcome = "FOCUS"

\* C2: without a pinch the average fingertip-to-wrist distance decides: below
\* 0.25 TREE, above 0.40 SCATTER, from 0.25 to 0.40 inclusive TREE; the result
\* is always a SceneMode.
C2_AverageDecides ==
  Classified =>
    /\ last.outcome \in SceneMode
    /\ Squared(last.result[1][4], last.result[1][8]) >= PinchThreshold * PinchThreshold
         => LET sum == TipSum(last.result[1])
            IN  /\ sum < 4 * FistThreshold => last.outcome = "TREE"
                /\ sum > 4 * OpenThreshold => last.outcome = "SCATTER"
                /\ (sum >= 4 * FistThreshold /\ sum <= 4 * OpenThreshold)
                     => last.outcome = "TREE"

\* C2 witness: a hand without a pinch whose average is exactly 0.40 has been
\* classified TREE.
C2_Witness ==
  /\ Classified
  /\ Squared(last.result[1][4], last.result[1][8]) >= PinchThreshold * PinchThreshold
  /\ TipSum(last.result[1]) = 4 * OpenThreshold
  /\ last.outcome = "TREE"

----------------------------------------------------------------------------
(* Properties of the detection loop *)

Ticked == last.op = "predict"

Processed == Ticked /\ last.outcome = "processed"

\* C3: a processed tick whose result holds no landmark set reports mode TREE
\* and no pointer, whatever earlier ticks reported.
C3_NoHandReportsTree ==
  (Processed /\ last.result = <<>>)
    => last.reported = <<[mode |-> "TREE", palmCenter |-> None]>>

\* C3 witness: a tick without a hand has been processed by a service whose
\* scene an earlier report had taken out of TREE.
C3_Witness ==
  /\ Processed
  /\ last.result = <<>>
  /\ scenes[last.id].mode # "TREE"

\* C4: once predict has run for a service, a frame request for its next run is
\* always pending: the loop never stalls.
C4_LoopNeverStalls ==
  \A k \in 1..Len(services) : services[k].started => services[k].pending >= 1

\* C5: a tick that finds the landmarker not loaded or the video's readyState
\* below 2 detects nothing, calls the callback zero times, raises nothing and
\* requests exactly one frame.
C5_NotReadyTickOnlyRetries ==
  (Ticked /\ (~services[last.id].landmarker \/ video.readyState < 2))
    => /\ last.detected = 0
       /\ last.reported = <<>>
       /\ last.outcome = "skipped"
       /\ last.scheduled = 1

\* C5 witness: a service with its landmarker loaded has ticked while the video
\* had no current frame.
C5_Witness ==
  /\ Ticked
  /\ services[last.id].landmarker
  /\ video.readyState < 2
  /\ last.outcome = "skipped"

\* C6: a processed tick calls onUpdate exactly once, with the mode computed for
\* that frame and, when a hand is present, the (x, y) of landmark 9 of the first
\* hand.
C6_ProcessedTickReportsOnce ==
  Processed =>
    /\ last.detected = 1
    /\ Len(last.reported) = 1
    /\ IF last.result = <<>>
       THEN last.reported[1].mode = "TREE"
       ELSE /\ last.reported[1].mode = processGestures(last.result[1])
            /\ last.reported[1].palmCenter =
                 <<[x |-> last.result[1][9].x, y |-> last.result[1][9].y]>>

\* C6 witness: a tick with a pinching hand has been processed and reported.
C6_Witness ==
  /\ Processed
  /\ last.result # <<>>
  /\ last.reported[1].mode = "FOCUS"
  /\ Len(last.calls) = 2

----------------------------------------------------------------------------
(* Properties of the component *)

\* C7: after App's onUpdate has handled a result, the scene sceneRef holds is in
\* the mode the result carries.
C7_DisplayedModeFollowsResult ==
  (Processed /\ services[last.id].registered)
    => scenes[sceneRef].mode = last.reported[1].mode

\* C8: after the cleanup has disposed a scene, neither its animate tick nor the
\* predict tick of the service made with it runs again.
C8_NoTickAfterTeardown ==
  last.op \in {"animate", "predict"} => ~scenes[last.id].disposed

\* C9: setMode, updateInteraction, addPhotoToScene and the render tick are never
\* called on a disposed scene.
C9_NoUseAfterDispose ==
  \A i \in 1..Len(last.calls) :
    last.calls[i].method \in {"setMode", "updateInteraction", "addPhotoToScene",
                               "animate"}
      => ~scenes[last.calls[i].scene].disposed

\* C10: the particle count of the scene sceneRef holds never decreases.
C10_ParticlesNeverRemoved ==
  [][Len(scenes'[sceneRef'].particles) >= Len(scenes[sceneRef].particles)]_vars

----------------------------------------------------------------------------
(* One scene alone: ChristmasScene's methods called in any order *)

\* PHOTO particles a scene holds at most, the photo wall's one included
ScenePhotos == 2

\* outcomes of each Math.random call in setMode
SceneEntropy == 2

SceneSamples == Samples(SceneEntropy)

\* the Math.random calls setMode(mode) makes on n particles: none in TREE, one
\* for each radius in SCATTER, one for the pick and two for each ring position
\* in FOCUS
DrawsFor(mode, n) ==
  IF mode = "TREE" THEN {NoDraws(n)}
  ELSE IF mode = "SCATTER"
       THEN { [NoDraws(n) EXCEPT !.a = a] : a \in [1..n -> SceneSamples] }
       ELSE Draws(n, SceneSamples)

\* palmCenter arguments of updateInteraction: none, the centre of the image,
\* a point right of and above the centre
ScenePointers == {None, Some(Point(50, 50, 0)), Some(Point(52, 47, 0))}

hostVars ==
  <<services, video, dispatch, gestureMode, effectMode, sceneRef, gestureRef,
    loading, timers, uploads, hasMediaDevices>>

\* a call of a scene method: its mode and palmCenter arguments
SceneEvent(op, mode, pointer) ==
  [op |-> op, id |-> 1, mode |-> mode, pointer |-> pointer,
   repeat |-> FALSE]   \* the call before was setMode with the same argument

Photos(s) == SelectSeq(s.particles, LAMBDA p : p.type = "PHOTO")

\* new ChristmasScene(container) has returned; no service is made
InitScene ==
  /\ \E d \in SceneDraws(AppSamples) : scenes = <<ChristmasScene(d)>>
  /\ services = <<>>
  /\ video = [readyState |-> 0, loadPending |-> FALSE]
  /\ dispatch = <<>>
  /\ gestureMode = "TREE"
  /\ effectMode = "TREE"
  /\ sceneRef = 1
  /\ gestureRef = Null
  /\ loading = TRUE
  /\ timers = 0
  /\ uploads = [started |-> 0, reading |-> 0, decoding |-> 0]
  /\ hasMediaDevices = TRUE
  /\ last = SceneEvent("constructor", "TREE", None)

SceneSetMode ==
  \E mode \in SceneMode :
    \E rnd \in DrawsFor(mode, Len(scenes[1].particles)) :
      /\ scenes' = [scenes EXCEPT ![1] = setMode(@, mode, rnd)]
      /\ last' = [SceneEvent("setMode", mode, None) EXCEPT
                    !.repeat = (last.op = "setMode" /\ last.mode = mode)]
      /\ UNCHANGED hostVars

SceneAddPhoto ==
  /\ Len(Photos(scenes[1])) < ScenePhotos
  /\ \E r \in [1..3 -> AppSamples] :
       \E rnd \in DrawsFor(scenes[1].mode, Len(scenes[1].particles) + 1) :
         scenes' = [scenes EXCEPT ![1] = addPhotoToScene(@, r, rnd)]
  /\ last' = SceneEvent("addPhotoToScene", scenes[1].mode, None)
  /\ UNCHANGED hostVars

SceneUpdateInteraction ==
  \E palmCenter \in ScenePointers :
    /\ scenes' = [scenes EXCEPT ![1] = updateInteraction(@, palmCenter)]
    /\ last' = SceneEvent("updateInteraction", scenes[1].mode, palmCenter)
    /\ UNCHANGED hostVars

\* the render tick: requests the next frame
SceneAnimate ==
  /\ scenes[1].frameRequested
  /\ last' = SceneEvent("animate", scenes[1].mode, None)
  /\ UNCHANGED appVars

NextScene ==
  \/ SceneSetMode
  \/ SceneAddPhoto
  \/ SceneUpdateInteraction
  \/ SceneAnimate

SpecScene == InitScene /\ [][NextScene]_vars

----------------------------------------------------------------------------
(* Properties of the scene *)

IndexIsPosition(s) ==
  \A j \in 1..Len(s.particles) : s.particles[j].originIndex = j - 1

\* C11: addPhotoToScene appends one PHOTO particle whose index is the particle
\* count before the call and leaves the index of every other particle as it
\* was; in every state the particle at position i has index i, so no index is
\* used twice.
C11_PhotoAppended ==
  [][/\ IndexIsPosition(scenes[1])
     /\ IndexIsPosition(scenes'[1])
     /\ last'.op = "addPhotoToScene" =>
          LET old == scenes[1].particles
              new == scenes'[1].particles
          IN  /\ Len(new) = Len(old) + 1
              /\ new[Len(new)].type = "PHOTO"
              /\ new[Len(new)].originIndex = Len(old)
              /\ \A j \in 1..Len(old) :
                   /\ new[j].originIndex = old[j].originIndex
                   /\ new[j].type = old[j].type]_vars

C11_Witness ==
  /\ last.op = "addPhotoToScene"
  /\ Len(scenes[1].particles) = NumOrnaments + 2

Targets(s) ==
  [j \in 1..Len(s.particles) |->
     [targetPos |-> s.particles[j].targetPos,
      targetRot |-> s.particles[j].targetRot]]

\* the step is a call of setMode(X) right after a call of setMode(X) that, for
\* X = FOCUS, chose the same photo
SetModeAgain ==
  /\ last.op = "setMode"
  /\ last'.op = "setMode"
  /\ last'.mode = last.mode
  /\ last.mode = "FOCUS" => scenes'[1].focusTargetIdx = scenes[1].focusTargetIdx

C13_FocusTargetValid ==
  LET s == scenes[1]
  IN  /\ s.mode # "FOCUS" => s.focusTargetIdx = Null
      /\ s.focusTargetIdx # Null =>
           \E j \in 1..Len(s.particles) :
             /\ s.particles[j].originIndex = s.focusTargetIdx
             /\ s.particles[j].type = "PHOTO"

\* FOCUS with two photos, the second of them chosen
C13_Witness ==
  /\ scenes[1].mode = "FOCUS"
  /\ Len(Photos(scenes[1])) = 2
  /\ scenes[1].focusTargetIdx = Photos(scenes[1])[2].originIndex

----------------------------------------------------------------------------
(* setMode alone: applied to particle collections without a photo *)

\* ornaments in the collection at most
LayoutOrnaments == 2

OrnamentTypes == {"BOX", "SPHERE", "CANDY"}

\* Particle's three Math.random calls returning 0.5: no drift
StillDrift == [j \in 1..3 |-> 50]

\* the scene as initParticles leaves it, for a count of 0 to LayoutOrnaments
InitLayout ==
  /\ \E n \in 0..LayoutOrnaments :
       \E types \in [1..n -> OrnamentTypes] :
         scenes = <<setMode([mode |-> "TREE", focusTargetIdx |-> Null,
                             particles |-> [i \in 1..n |->
                                Particle(types[i], i - 1, StillDrift)],
                             rotation |-> [x |-> 0, y |-> 0],
                             disposed |-> FALSE, frameRequested |-> FALSE],
                            "TREE", NoDraws(n))>>
  /\ services = <<>>
  /\ video = [readyState |-> 0, loadPending |-> FALSE]
  /\ dispatch = <<>>
  /\ gestureMode = "TREE"
  /\ effectMode = "TREE"
  /\ sceneRef = 1
  /\ gestureRef = Null
  /\ loading = TRUE
  /\ timers = 0
  /\ uploads = [started |-> 0, reading |-> 0, decoding |-> 0]
  /\ hasMediaDevices = TRUE
  /\ last = SceneEvent("initParticles", "TREE", None)

\* outcomes of each Math.random call in setMode
LayoutSamples == {0, 50}

\* the Math.random calls setMode(mode) makes on n particles none of which is a
\* photo: no pick is drawn
LayoutDraws(mode, n) ==
  IF mode = "TREE" THEN {NoDraws(n)}
  ELSE IF mode = "SCATTER"
       THEN { [NoDraws(n) EXCEPT !.a = a] : a \in [1..n -> LayoutSamples] }
       ELSE { [NoDraws(n) EXCEPT !.a = a, !.b = b] :
                a \in [1..n -> LayoutSamples], b \in [1..n -> LayoutSamples] }

LayoutSetMode ==
  \E mode \in SceneMode :
    \E rnd \in LayoutDraws(mode, Len(scenes[1].particles)) :
      /\ scenes' = [scenes EXCEPT ![1] = setMode(@, mode, rnd)]
      /\ last' = [SceneEvent("setMode", mode, None) EXCEPT
                    !.repeat = (last.op = "setMode" /\ last.mode = mode)]
      /\ UNCHANGED hostVars

NextLayout == LayoutSetMode

SpecLayout == InitLayout /\ [][NextLayout]_vars

\* C14: setMode(FOCUS) on a scene without a PHOTO particle leaves the focus
\* target unset and gives every particle the ring target and the scale 0.4 of
\* the non-focused branch; setMode of any mode on a scene without particles
\* sets the mode and leaves the collection empty.
C14_FocusWithoutPhoto ==
  [][last'.op = "setMode" =>
       /\ scenes'[1].mode = last'.mode
       /\ (last'.mode = "FOCUS" /\ Len(Photos(scenes[1])) = 0) =>
            /\ scenes'[1].focusTargetIdx = Null
            /\ Len(scenes'[1].particles) = Len(scenes[1].particles)
            /\ \A j \in 1..Len(scenes'[1].particles) :
                 /\ scenes'[1].particles[j].targetPos.form = "ring"
                 /\ scenes'[1].particles[j].scale = 40
       /\ Len(scenes[1].particles) = 0 => scenes'[1].particles = <<>>]_vars

\* setMode(FOCUS) has returned on two ornaments and no photo
C14_Witness ==
  /\ last.op = "setMode"
  /\ last.mode = "FOCUS"
  /\ Len(scenes[1].particles) = LayoutOrnaments
  /\ Len(Photos(scenes[1])) = 0
  /\ scenes[1].mode = "FOCUS"

\* C15: updateInteraction(null) leaves the rotation of the main group, the
\* mode, the focus target and every particle exactly as they were.
C15_NoPointerNoChange ==
  [][(last'.op = "updateInteraction" /\ last'.pointer = None)
       => scenes'[1] = scenes[1]]_vars

\* updateInteraction(null) has returned on a scene that a hand had turned
C15_Witness ==
  /\ last.op = "updateInteraction"
  /\ last.pointer = None
  /\ scenes[1].rotation.x > 0
  /\ scenes[1].rotation.y > 0

----------------------------------------------------------------------------
(* The component under fair scheduling: a timer that is set fires, and the
   dispatch of an event calls every listener it holds *)

SpecFair == Spec /\ WF_vars(LoadingTimer) /\ WF_vars(ListenerPredict)

Failed(k) == services[k].pc = "failed"

\* the scene and the service of an effect run whose init() was rejected
AfterFailure(k) ==
  /\ scenes[k].mode = "TREE"
  /\ scenes[k].frameRequested
  /\ ~services[k].listening
  /\ ~services[k].registered
  /\ services[k].pending = 0
  /\ timers > 0 \/ ~loading

RECURSIVE PendingTicks(_)
\* frame requests of predict outstanding over the first k services
PendingTicks(k) ==
  IF k = 0 THEN 0 ELSE services[k].pending + PendingTicks(k - 1)

\* C17: over all gesture services made, at most one frame request of predict
\* is outstanding.
C17_OneDetectionLoop == PendingTicks(Len(services)) <= 1

\* C18: addPhotoToScene leaves the mode as it was and, in FOCUS with a focus
\* target chosen, leaves the focus target as it was.
C18_AddPhotoKeepsFocus ==
  [][last'.op = "addPhotoToScene" =>
       /\ scenes'[1].mode = scenes[1].mode
       /\ (scenes[1].mode = "FOCUS" /\ scenes[1].focusTargetIdx # Null)
            => scenes'[1].focusTargetIdx = scenes[1].focusTargetIdx]_vars

\* the particle is presented: target (0, 2, 35), target rotation (0, 0, 0),
\* scale 4.5
Presented(p) ==
  /\ p.targetPos = [form |-> "xyz", x |-> 0, y |-> 200, z |-> 3500]
  /\ p.targetRot = Vec3(0, 0, 0)
  /\ p.scale = 450

\* C19: in FOCUS with at least one photo exactly one particle is presented,
\* and it is the focus target and a PHOTO; every other particle has scale 0.4
\* and a target on the ring at depth -15 with a distance in [30, 45); in TREE
\* and in SCATTER every particle has scale 1.
C19_FocusPresentsOne ==
  LET s == scenes[1]
      n == Len(s.particles)
  IN  /\ (s.mode = "FOCUS" /\ Len(Photos(s)) > 0) =>
           /\ Cardinality({j \in 1..n : Presented(s.particles[j])}) = 1
           /\ \A j \in 1..n :
                IF Presented(s.particles[j])
                THEN /\ s.particles[j].originIndex = s.focusTargetIdx
                     /\ s.particles[j].type = "PHOTO"
                ELSE /\ s.particles[j].scale = 40
                     /\ s.particles[j].targetPos.form = "ring"
                     /\ s.particles[j].targetPos.z = -1500
                     /\ s.particles[j].targetPos.dist >= 3000
                     /\ s.particles[j].targetPos.dist < 4500
      /\ s.mode \in {"TREE", "SCATTER"} =>
           \A j \in 1..n : s.particles[j].scale = 100

\* setMode(FOCUS) has returned on a scene with two photos and presents the
\* first of them
C19_Witness ==
  /\ last.op = "setMode"
  /\ last.mode = "FOCUS"
  /\ Len(Photos(scenes[1])) = 2
  /\ \E j \in 1..Len(scenes[1].particles) :
       /\ Presented(scenes[1].particles[j])
       /\ scenes[1].particles[j].originIndex = Photos(scenes[1])[1].originIndex

----------------------------------------------------------------------------
(* The render tick on the meshes.  Mesh positions and rotations, and in this
   part the targets and the drift too, are in millionths, so that every
   multiple of the drift the code forms is a whole number. *)

\* ticks taken at most
MaxFrames == 3

Micro(v) == Vec3(v.x * 100, v.y * 100, v.z * 100)

\* Particle.update drifting the focus target like every other particle
updateDriftsFocusTarget(p, mode, focusTarget) ==
  LET lerpSpeed == IF mode = "FOCUS" THEN 4 ELSE 8
      position == Vec3(Lerp(p.position.x, p.targetPos.x, lerpSpeed),
                       Lerp(p.position.y, p.targetPos.y, lerpSpeed),
                       Lerp(p.position.z, p.targetPos.z, lerpSpeed))
  IN  IF mode = "SCATTER"
      THEN [p EXCEPT !.position = position,
                     !.rotation = Vec3(@.x + TruncDiv(p.velocity.x * 25, 10),
                                       @.y + TruncDiv(p.velocity.y * 25, 10),
                                       @.z + TruncDiv(p.velocity.z * 25, 10))]
      ELSE IF mode = "FOCUS"
      THEN [p EXCEPT !.position = Vec3(position.x + TruncDiv(p.velocity.x * 5, 100),
                                       position.y + TruncDiv(p.velocity.y * 5, 100),
                                       position.z + TruncDiv(p.velocity.z * 5, 100)),
                     !.rotation = Vec3(@.x + TruncDiv(p.velocity.x * 2, 10),
                                       @.y + TruncDiv(p.velocity.y * 2, 10),
                                       @.z)]
      ELSE [p EXCEPT !.position = position,
                     !.rotation = Vec3(Lerp(@.x, p.targetRot.x, 6),
                                       Lerp(@.y, p.targetRot.y, 6),
                                       Lerp(@.z, p.targetRot.z, 6))]

\* Particle.update halving the drift on every tick in SCATTER
updateDampsDrift(p, mode, focusTarget) ==
  LET lerpSpeed == IF mode = "FOCUS" THEN 4 ELSE 8
      position == Vec3(Lerp(p.position.x, p.targetPos.x, lerpSpeed),
                       Lerp(p.position.y, p.targetPos.y, lerpSpeed),
                       Lerp(p.position.z, p.targetPos.z, lerpSpeed))
  IN  IF mode = "SCATTER"
      THEN [p EXCEPT !.position = position,
                     !.rotation = Vec3(@.x + TruncDiv(p.velocity.x * 25, 10),
                                       @.y + TruncDiv(p.velocity.y * 25, 10),
                                       @.z + TruncDiv(p.velocity.z * 25, 10)),
                     !.velocity = Vec3(TruncDiv(@.x, 2), TruncDiv(@.y, 2),
                                       TruncDiv(@.z, 2))]
      ELSE IF mode = "FOCUS" /\ focusTarget # p.originIndex
      THEN [p EXCEPT !.position = Vec3(position.x + TruncDiv(p.velocity.x * 5, 100),
                                       position.y + TruncDiv(p.velocity.y * 5, 100),
                                       position.z + TruncDiv(p.velocity.z * 5, 100)),
                     !.rotation = Vec3(@.x + TruncDiv(p.velocity.x * 2, 10),
                                       @.y + TruncDiv(p.velocity.y * 2, 10),
                                       @.z)]
      ELSE [p EXCEPT !.position = position,
                     !.rotation = Vec3(Lerp(@.x, p.targetRot.x, 6),
                                       Lerp(@.y, p.targetRot.y, 6),
                                       Lerp(@.z, p.targetRot.z, 6))]

\* Particle.update: mesh.position and mesh.rotation after it
update(p, mode, focusTarget) ==
  LET lerpSpeed == IF mode = "FOCUS" THEN 4 ELSE 8
      position == Vec3(Lerp(p.position.x, p.targetPos.x, lerpSpeed),
                       Lerp(p.position.y, p.targetPos.y, lerpSpeed),
                       Lerp(p.position.z, p.targetPos.z, lerpSpeed))
  IN  IF mode = "SCATTER"
      THEN [p EXCEPT !.position = position,
                     !.rotation = Vec3(@.x + TruncDiv(p.velocity.x * 25, 10),
                                       @.y + TruncDiv(p.velocity.y * 25, 10),
                                       @.z + TruncDiv(p.velocity.z * 25, 10))]
      ELSE IF mode = "FOCUS" /\ focusTarget # p.originIndex
      THEN [p EXCEPT !.position = Vec3(position.x + TruncDiv(p.velocity.x * 5, 100),
                                       position.y + TruncDiv(p.velocity.y * 5, 100),
                                       position.z + TruncDiv(p.velocity.z * 5, 100)),
                     !.rotation = Vec3(@.x + TruncDiv(p.velocity.x * 2, 10),
                                       @.y + TruncDiv(p.velocity.y * 2, 10),
                                       @.z)]
      ELSE [p EXCEPT !.position = position,
                     !.rotation = Vec3(Lerp(@.x, p.targetRot.x, 6),
                                       Lerp(@.y, p.targetRot.y, 6),
                                       Lerp(@.z, p.targetRot.z, 6))]

\* a particle with its mesh, as the tick reads and writes it
MeshParticle(type, index, r, position, rotation, targetPos, targetRot) ==
  [type |-> type, originIndex |-> index, velocity |-> Micro(Velocity(r)),
   targetPos |-> targetPos, targetRot |-> targetRot,
   position |-> position, rotation |-> rotation]

\* Math.random outcomes of Particle's constructor: drifts with a negative, a
\* zero and a positive component
TickDrifts == {<<0, 50, 66>>, <<66, 0, 50>>}

TickPositions == {Vec3(0, 0, 0), Vec3(1000000, -12000000, 500000)}

TickRotations == {Vec3(0, 0, 0), Vec3(100000, 200000, -300000)}

\* the presentation target (0, 2, 35)
TickTargets == {Vec3(0, 2000000, 35000000)}

TickTargetRotations == {Vec3(0, 0, 0), Vec3(0, 1570796, 0)}

TickParticles(type, index) ==
  { MeshParticle(type, index, r, position, rotation, targetPos, targetRot) :
      r \in TickDrifts, position \in TickPositions, rotation \in TickRotations,
      targetPos \in TickTargets, targetRot \in TickTargetRotations }

\* a scene of one ornament and one photo, in any mode; in FOCUS the photo is
\* the focus target
InitTick ==
  /\ \E mode \in SceneMode :
       \E box \in TickParticles("BOX", 0) :
         \E photo \in TickParticles("PHOTO", 1) :
           scenes = <<[mode |-> mode,
                       focusTargetIdx |-> IF mode = "FOCUS" THEN 1 ELSE Null,
                       particles |-> <<box, photo>>,
                       rotation |-> [x |-> 0, y |-> 0],
                       disposed |-> FALSE, frameRequested |-> TRUE]>>
  /\ services = <<>>
  /\ video = [readyState |-> 0, loadPending |-> FALSE]
  /\ dispatch = <<>>
  /\ gestureMode = "TREE"
  /\ effectMode = "TREE"
  /\ sceneRef = 1
  /\ gestureRef = Null
  /\ loading = TRUE
  /\ timers = 0
  /\ uploads = [started |-> 0, reading |-> 0, decoding |-> 0]
  /\ hasMediaDevices = TRUE
  /\ last = [op |-> "constructor", id |-> 1, frame |-> 0]

\* animate: this.particles.forEach(p => p.update(this.mode, this.focusTargetIdx))
Tick ==
  /\ scenes[1].frameRequested
  /\ last.frame < MaxFrames
  /\ scenes' = [scenes EXCEPT ![1].particles =
                  [j \in 1..Len(@) |->
                     update(@[j], scenes[1].mode, scenes[1].focusTargetIdx)]]
  /\ last' = [op |-> "animate", id |-> 1, frame |-> last.frame + 1]
  /\ UNCHANGED hostVars

NextTick == Tick

SpecTick == InitTick /\ [][NextTick]_vars

\* b is a eased toward target at rate hundredths / 100, to within one millionth
Eased(a, b, target, hundredths) ==
  LET d == 100 * (b - a) - hundredths * (target - a)
  IN  d > -100 /\ d < 100

EasedVec(a, b, target, hundredths) ==
  /\ Eased(a.x, b.x, target.x, hundredths)
  /\ Eased(a.y, b.y, target.y, hundredths)
  /\ Eased(a.z, b.z, target.z, hundredths)

\* C20: one tick takes every particle p to q by the one rule its case selects.
\* SCATTER: the rotation grows by 2.5 times the drift on all three axes and the
\* position eases at 0.08.  FOCUS and p not the focus target: the position
\* eases at 0.04 and is offset by 0.05 times the drift, the rotation grows by
\* 0.2 times the drift on x and y.  Otherwise: the rotation eases toward the
\* target rotation at 0.06, the position at 0.04 in FOCUS and 0.08 in TREE.
C20_OneRulePerParticle ==
  [][last'.op = "animate" =>
       \A j \in 1..Len(scenes[1].particles) :
         LET p == scenes[1].particles[j]
             q == scenes'[1].particles[j]
             v == p.velocity
             mode == scenes[1].mode
         IN  IF mode = "SCATTER"
             THEN /\ 2 * (q.rotation.x - p.rotation.x) = 5 * v.x
                  /\ 2 * (q.rotation.y - p.rotation.y) = 5 * v.y
                  /\ 2 * (q.rotation.z - p.rotation.z) = 5 * v.z
                  /\ EasedVec(p.position, q.position, p.targetPos, 8)
             ELSE IF mode = "FOCUS" /\ p.originIndex # scenes[1].focusTargetIdx
             THEN /\ 5 * (q.rotation.x - p.rotation.x) = v.x
                  /\ 5 * (q.rotation.y - p.rotation.y) = v.y
                  /\ q.rotation.z = p.rotation.z
                  /\ EasedVec(p.position,
                              Vec3(q.position.x - v.x \div 20,
                                   q.position.y - v.y \div 20,
                                   q.position.z - v.z \div 20),
                              p.targetPos, 4)
             ELSE /\ EasedVec(p.rotation, q.rotation, p.targetRot, 6)
                  /\ EasedVec(p.position, q.position, p.targetPos,
                              IF mode = "FOCUS" THEN 4 ELSE 8)]_vars

\* the second tick in FOCUS has run: the ornament has drifted, the photo has
\* moved toward its target
C20_Witness ==
  /\ last.op = "animate"
  /\ last.frame = 2
  /\ scenes[1].mode = "FOCUS"
  /\ scenes[1].particles[1].velocity.x # 0
  /\ 5 * scenes[1].particles[1].rotation.x = 2 * scenes[1].particles[1].velocity.x
  /\ scenes[1].particles[2].position.z > 2000000

----------------------------------------------------------------------------
(* The render tick among the scene's methods.  The scene starts with targets
   given as vectors in millionths; the tick is followed on it until setMode
   (alone or inside addPhotoToScene) replaces them by the targets of a
   layout, which are not whole numbers of millionths. *)

\* a particle away from its target, with its mesh and its scale
FrameParticle(type, index, r) ==
  [type |-> type, originIndex |-> index, velocity |-> Micro(Velocity(r)),
   targetPos |-> Vec3(0, 2000000, 35000000),
   targetRot |-> Vec3(0, 1570796, 0),
   scale |-> 100,
   position |-> Vec3(1000000, -12000000, 500000),
   rotation |-> Vec3(100000, 200000, -300000)]

\* a call of a scene method or a tick; frame counts the ticks taken
FrameEvent(op, frame) == [op |-> op, id |-> 1, frame |-> frame]

\* one ornament and one photo, in any mode; in FOCUS the photo is the focus
\* target
InitFrame ==
  /\ \E mode \in SceneMode :
       \E r0 \in TickDrifts :
         \E r1 \in TickDrifts :
           scenes = <<[mode |-> mode,
                       focusTargetIdx |-> IF mode = "FOCUS" THEN 1 ELSE Null,
                       particles |-> <<FrameParticle("BOX", 0, r0),
                                       FrameParticle("PHOTO", 1, r1)>>,
                       rotation |-> [x |-> 0, y |-> 0],
                       disposed |-> FALSE, frameRequested |-> TRUE]>>
  /\ services = <<>>
  /\ video = [readyState |-> 0, loadPending |-> FALSE]
  /\ dispatch = <<>>
  /\ gestureMode = "TREE"
  /\ effectMode = "TREE"
  /\ sceneRef = 1
  /\ gestureRef = Null
  /\ loading = TRUE
  /\ timers = 0
  /\ uploads = [started |-> 0, reading |-> 0, decoding |-> 0]
  /\ hasMediaDevices = TRUE
  /\ last = FrameEvent("constructor", 0)

\* every target position is a vector
HasVectorTargets(s) ==
  \A j \in 1..Len(s.particles) :
    DOMAIN s.particles[j].targetPos = {"x", "y", "z"}

\* animate: this.particles.forEach(p => p.update(this.mode, this.focusTargetIdx))
FrameTick ==
  /\ scenes[1].frameRequested
  /\ last.frame < MaxFrames
  /\ HasVectorTargets(scenes[1])
  /\ scenes' = [scenes EXCEPT ![1].particles =
                  [j \in 1..Len(@) |->
                     update(@[j], scenes[1].mode, scenes[1].focusTargetIdx)]]
  /\ last' = FrameEvent("animate", last.frame + 1)
  /\ UNCHANGED hostVars

FrameUpdateInteraction ==
  \E palmCenter \in ScenePointers :
    /\ scenes' = [scenes EXCEPT ![1] = updateInteraction(@, palmCenter)]
    /\ last' = FrameEvent("updateInteraction", last.frame)
    /\ UNCHANGED hostVars

\* every Math.random call of setMode returns 0
FrameSetMode ==
  \E mode \in SceneMode :
    /\ scenes' = [scenes EXCEPT ![1] =
                    setMode(@, mode, NoDraws(Len(scenes[1].particles)))]
    /\ last' = FrameEvent("setMode", last.frame)
    /\ UNCHANGED hostVars

FrameAddPhoto ==
  /\ Len(Photos(scenes[1])) < ScenePhotos
  /\ \E r \in TickDrifts :
       scenes' = [scenes EXCEPT ![1] =
                    addPhotoToScene(@, r, NoDraws(Len(scenes[1].particles) + 1))]
  /\ last' = FrameEvent("addPhotoToScene", last.frame)
  /\ UNCHANGED hostVars

NextFrame ==
  \/ FrameTick
  \/ FrameUpdateInteraction
  \/ FrameSetMode
  \/ FrameAddPhoto

SpecFrame == InitFrame /\ [][NextFrame]_vars

\* C21: no step changes the drift, the index or the type of a particle or
\* removes one; the tick and updateInteraction leave the mode, the focus
\* target, the particle count and every target position and target rotation
\* as they were, so targets change only in setMode and addPhotoToScene.
C21_FrameKeepsLayout ==
  [][LET old == scenes[1].particles
         new == scenes'[1].particles
     IN  /\ Len(new) >= Len(old)
         /\ \A j \in 1..Len(old) :
              /\ new[j].velocity = old[j].velocity
              /\ new[j].originIndex = old[j].originIndex
              /\ new[j].type = old[j].type
         /\ last'.op \in {"animate", "updateInteraction"} =>
              /\ scenes'[1].mode = scenes[1].mode
              /\ scenes'[1].focusTargetIdx = scenes[1].focusTargetIdx
              /\ Len(new) = Len(old)
              /\ \A j \in 1..Len(old) :
                   /\ new[j].targetPos = old[j].targetPos
                   /\ new[j].targetRot = old[j].targetRot
         /\ Targets(scenes'[1]) # Targets(scenes[1]) =>
              last'.op \in {"setMode", "addPhotoToScene"}]_vars

\* the second tick in SCATTER has run on a scene a hand had turned; the
\* ornament drifts and its mesh has turned
C21_Witness ==
  /\ last.op = "animate"
  /\ last.frame = 2
  /\ scenes[1].mode = "SCATTER"
  /\ scenes[1].rotation.y > 0
  /\ scenes[1].particles[1].velocity.x # 0
  /\ scenes[1].particles[1].rotation.x # 100000

\* C22: after setMode(TREE) there is one height for which every particle i of
\* N has the target radius 14 (1 - i/N), the angle 45 pi i/N and the target
\* height y = (i/N) height - height/2, so that the layout is centred on y = 0.
C22_TreeCentred ==
  LET s == scenes[1]
      n == Len(s.particles)
  IN  (last.op = "setMode" /\ s.mode = "TREE") =>
        \E height \in 1..6000 :
          \A j \in 1..n :
            LET i == j - 1
                tp == s.particles[j].targetPos
            IN  /\ n * tp.radius = 1400 * (n - i)
                /\ n * tp.angle = 4500 * i
                /\ 2 * n * tp.y = 2 * height * i - n * height

====
